---- MODULE Spec2Model ----
(***************************************************************************)
(* Model of fusion_tcv/transforms.py: the three numeric helpers            *)
(* (clip_value, scale_value, logistic_value) and the nine RewardTransform  *)
(* subclasses, over a binary floating-point arithmetic with Python's       *)
(* exception behaviour.                                                    *)
(*                                                                         *)
(* A Python float is an IEEE-754 binary64.  The model keeps its structure  *)
(* (sign, mantissa, exponent, NaN, +-inf, round-to-nearest-even, overflow  *)
(* to infinity, gradual underflow) and its exponent range, and reduces the *)
(* mantissa to Precision bits.  Signed zero is not modelled (-0.0 == 0.0   *)
(* in every comparison the code makes).                                    *)
(***************************************************************************)
EXTENDS Integers, Sequences, FiniteSets, TLC

\* Mantissa width of the modelled float (binary64 has 53).
Precision == 5
\* Largest binary exponent of a finite float (binary64).
EMax == 1023
\* Exponent of the smallest normal float, and of the last bit of a subnormal.
EMin == 1 - EMax
EMinLsb == EMin - (Precision - 1)

Pow2(n) == 2 ^ n

RECURSIVE BitLen(_)
BitLen(a) == IF a = 0 THEN 0 ELSE 1 + BitLen(a \div 2)

(***************************************************************************)
(* Values.  Every value is a record [k, m, e] so that any two compare:     *)
(*   k = "fin"  the finite float m * 2^e, m odd (or m = 0, e = 0)          *)
(*   k = "inf"  the infinity of sign m                                     *)
(*   k = "nan"  not-a-number                                               *)
(*   any other k: the Python exception of that name, raised while the      *)
(*   expression was evaluated.                                             *)
(***************************************************************************)
Fin(m, e) == [k |-> "fin", m |-> m, e |-> e]
Inf(s) == [k |-> "inf", m |-> s, e |-> 0]
NaN == [k |-> "nan", m |-> 0, e |-> 0]
Exc(name) == [k |-> name, m |-> 0, e |-> 0]
Zero == Fin(0, 0)
PosInf == Inf(1)
NegInf == Inf(-1)

IsExc(x) == x.k \notin {"fin", "inf", "nan"}
IsNaN(x) == x.k = "nan"
IsFin(x) == x.k = "fin"
IsInf(x) == x.k = "inf"
IsZero(x) == x.k = "fin" /\ x.m = 0

Abs(n) == IF n < 0 THEN -n ELSE n
Sgn(n) == IF n < 0 THEN -1 ELSE IF n > 0 THEN 1 ELSE 0

\* The canonical record of the positive number a * 2^e.
RECURSIVE Canon(_, _)
Canon(a, e) ==
    IF a = 0 THEN Zero
    ELSE IF a % 2 = 0 THEN Canon(a \div 2, e + 1)
    ELSE Fin(a, e)

\* Exponent of the position above the leading bit of a nonzero finite float.
Top(x) == x.e + BitLen(Abs(x.m))

Overflowed(x) == IF x.m # 0 /\ Top(x) - 1 > EMax THEN PosInf ELSE x

(***************************************************************************)
(* Rounding of the positive real a * 2^e (plus, when sticky, a nonzero     *)
(* remainder below the last bit of a) to the nearest float, ties to even.  *)
(***************************************************************************)
RoundMag(a, e, sticky) ==
    IF a = 0 THEN Zero
    ELSE LET L == BitLen(a)
             t == IF e + L - Precision > EMinLsb THEN e + L - Precision ELSE EMinLsb
             sh == t - e
         IN  IF sh <= 0 THEN Overflowed(Canon(a, e))
             ELSE IF sh > L + 1 THEN Zero
             ELSE LET q == a \div Pow2(sh)
                      r == a % Pow2(sh)
                      half == Pow2(sh - 1)
                      up == r > half \/ (r = half /\ (sticky \/ q % 2 = 1))
                  IN  Overflowed(Canon(IF up THEN q + 1 ELSE q, t))

NegVal(x) ==
    IF x.k = "fin" THEN Fin(-x.m, x.e)
    ELSE IF x.k = "inf" THEN Inf(-x.m)
    ELSE x

Round(s, a, e, sticky) ==
    IF s < 0 THEN NegVal(RoundMag(a, e, sticky)) ELSE RoundMag(a, e, sticky)

RoundInt(n, e) == Round(Sgn(n), Abs(n), e, FALSE)

\* The float nearest to the integer n, and to the ratio num/den (den > 0):
\* what a numeric literal of the source denotes.
FInt(n) == RoundInt(n, 0)
FRatio(num, den) ==
    LET s == Precision + 2 + BitLen(den)
        a == Abs(num) * Pow2(s)
    IN  Round(Sgn(num), a \div den, -s, a % den # 0)

One == FInt(1)

(***************************************************************************)
(* Arithmetic and comparison of Python floats.  An exception raised in an  *)
(* operand propagates (the left operand is evaluated first).               *)
(***************************************************************************)
Neg(x) == IF IsExc(x) THEN x ELSE NegVal(x)

AbsVal(x) ==
    IF x.k = "fin" THEN Fin(Abs(x.m), x.e)
    ELSE IF x.k = "inf" THEN PosInf
    ELSE x

AddFin(x, y) ==
    IF x.m = 0 THEN y
    ELSE IF y.m = 0 THEN x
    ELSE LET lo == IF x.e < y.e THEN x ELSE y
             hi == IF x.e < y.e THEN y ELSE x
             gap == hi.e - lo.e
         IN  IF gap > 30 - Precision - 1 THEN hi
             ELSE RoundInt(hi.m * Pow2(gap) + lo.m, lo.e)

Add(x, y) ==
    IF IsExc(x) THEN x
    ELSE IF IsExc(y) THEN y
    ELSE IF IsNaN(x) \/ IsNaN(y) THEN NaN
    ELSE IF IsInf(x) THEN (IF IsInf(y) /\ y.m # x.m THEN NaN ELSE x)
    ELSE IF IsInf(y) THEN y
    ELSE AddFin(x, y)

Sub(x, y) == Add(x, Neg(y))

Mul(x, y) ==
    IF IsExc(x) THEN x
    ELSE IF IsExc(y) THEN y
    ELSE IF IsNaN(x) \/ IsNaN(y) THEN NaN
    ELSE IF IsInf(x) \/ IsInf(y)
         THEN (IF IsZero(x) \/ IsZero(y) THEN NaN ELSE Inf(Sgn(x.m) * Sgn(y.m)))
    ELSE Round(Sgn(x.m) * Sgn(y.m), Abs(x.m) * Abs(y.m), x.e + y.e, FALSE)

\* Python's float division: a zero divisor raises ZeroDivisionError whatever
\* the dividend is.
Div(x, y) ==
    IF IsExc(x) THEN x
    ELSE IF IsExc(y) THEN y
    ELSE IF IsZero(y) THEN Exc("ZeroDivisionError")
    ELSE IF IsNaN(x) \/ IsNaN(y) THEN NaN
    ELSE IF IsInf(x) THEN (IF IsInf(y) THEN NaN ELSE Inf(x.m * Sgn(y.m)))
    ELSE IF IsInf(y) THEN Zero
    ELSE LET s == 2 * Precision + 1
             a == Abs(x.m) * Pow2(s)
             d == Abs(y.m)
         IN  Round(Sgn(x.m) * Sgn(y.m), a \div d, x.e - y.e - s, a % d # 0)

\* x < y on finite floats.
LtFin(x, y) ==
    IF Sgn(x.m) # Sgn(y.m) THEN Sgn(x.m) < Sgn(y.m)
    ELSE IF x.m = 0 THEN FALSE
    ELSE IF Top(x) # Top(y) THEN (IF x.m > 0 THEN Top(x) < Top(y) ELSE Top(x) > Top(y))
    ELSE IF x.e < y.e THEN x.m < y.m * Pow2(y.e - x.e)
    ELSE x.m * Pow2(x.e - y.e) < y.m

\* Every comparison with NaN is false.
Lt(x, y) ==
    IF IsNaN(x) \/ IsNaN(y) THEN FALSE
    ELSE IF IsInf(x) THEN x.m < 0 /\ ~(IsInf(y) /\ y.m < 0)
    ELSE IF IsInf(y) THEN y.m > 0
    ELSE LtFin(x, y)

Gt(x, y) == Lt(y, x)
Eq(x, y) == ~IsNaN(x) /\ ~IsNaN(y) /\ x = y
Le(x, y) == Lt(x, y) \/ Eq(x, y)
Ge(x, y) == Le(y, x)

\* Python's built-in max(a, b) and min(a, b): the first argument unless the
\* second compares greater (smaller).
PyMax(a, b) == IF Gt(b, a) THEN b ELSE a
PyMin(a, b) == IF Lt(b, a) THEN b ELSE a

(***************************************************************************)
(* math.exp and math.log, evaluated in fixed point and rounded to a float  *)
(* (accurate to about one unit in the last place, as the C library is).    *)
(*   Log2E_Q20 = log2(e) * 2^20,  Ln2_Q18 = ln(2) * 2^18,                  *)
(*   RootsOfTwo[k] = 2^(2^-k) * 2^14.                                      *)
(***************************************************************************)
Log2E_Q20 == 1512775
Ln2_Q18 == 181704
RootsOfTwo == <<23170, 19484, 17867, 17109, 16743, 16562,
                16473, 16428, 16406, 16395, 16390, 16387>>

\* 2^(f / 4096) * 2^14 for 0 <= f < 4096, from bit k of f downwards.
RECURSIVE Exp2Q14(_, _, _)
Exp2Q14(f, k, acc) ==
    IF k > 12 THEN acc
    ELSE IF (f \div Pow2(12 - k)) % 2 = 1
         THEN Exp2Q14(f, k + 1, (acc * RootsOfTwo[k] + Pow2(13)) \div Pow2(14))
         ELSE Exp2Q14(f, k + 1, acc)

\* log2(g / 2^14) * 4096 for 2^14 <= g < 2^15, digit by digit.
RECURSIVE Log2Q12(_, _, _)
Log2Q12(g, k, acc) ==
    IF k > 12 THEN acc
    ELSE IF g >= RootsOfTwo[k]
         THEN Log2Q12((g * Pow2(14)) \div RootsOfTwo[k], k + 1, acc + Pow2(12 - k))
         ELSE Log2Q12(g, k + 1, acc)

\* math.exp on a nonzero finite float: e^x = 2^(x * log2 e).  A result above
\* the largest float raises OverflowError; one below the smallest is 0.0.
ExpFin(x) ==
    IF Top(x) > 11 THEN (IF x.m > 0 THEN Exc("OverflowError") ELSE Zero)
    ELSE LET p == Abs(x.m) * Log2E_Q20
             down == 8 - x.e
             yq == IF down <= 0 THEN p * Pow2(-down)
                   ELSE IF down <= 30 THEN p \div Pow2(down)
                   ELSE 0
             inexact == IF down <= 0 THEN FALSE
                        ELSE IF down <= 30 THEN p % Pow2(down) # 0
                        ELSE TRUE
             c == IF x.m > 0 THEN yq ELSE yq + (IF inexact THEN 1 ELSE 0)
             n == IF x.m > 0 THEN c \div 4096 ELSE -((c + 4095) \div 4096)
             f == IF x.m > 0 THEN c % 4096 ELSE (-n) * 4096 - c
             r == RoundMag(Exp2Q14(f, 1, Pow2(14)), n - 14, TRUE)
         IN  IF IsInf(r) THEN Exc("OverflowError") ELSE r

Exp(x) ==
    IF IsExc(x) \/ IsNaN(x) THEN x
    ELSE IF IsInf(x) THEN (IF x.m > 0 THEN PosInf ELSE Zero)
    ELSE IF IsZero(x) THEN One
    ELSE ExpFin(x)

\* math.log on a positive finite float m * 2^e.
LogFin(x) ==
    LET L == BitLen(x.m)
        g == IF L <= 15 THEN x.m * Pow2(15 - L) ELSE x.m \div Pow2(L - 15)
        f == Log2Q12(g, 1, 0)
        E == x.e + L - 1
        q == E * Ln2_Q18 + (f * Ln2_Q18) \div 4096
    IN  IF E = 0 /\ f = 0 THEN Zero
        ELSE Round(Sgn(q), Abs(q), -18, TRUE)

\* math.log raises ValueError ("math domain error") outside (0, +inf].
Log(x) ==
    IF IsExc(x) \/ IsNaN(x) THEN x
    ELSE IF IsInf(x) THEN (IF x.m > 0 THEN PosInf ELSE Exc("ValueError"))
    ELSE IF x.m <= 0 THEN Exc("ValueError")
    ELSE LogFin(x)

\* error ** exponent for an integer-valued exponent n: float_pow's special
\* cases, then repeated multiplication (a negative n inverts).
RECURSIVE PowNat(_, _)
PowNat(x, n) == IF n = 0 THEN One ELSE Mul(x, PowNat(x, n - 1))

Pow(x, y) ==
    IF IsExc(x) THEN x
    ELSE IF IsExc(y) THEN y
    ELSE IF IsZero(y) THEN One
    ELSE IF x = One THEN One
    ELSE IF IsNaN(x) \/ IsNaN(y) THEN NaN
    ELSE LET n == y.m * Pow2(y.e)
             r == PowNat(x, Abs(n))
         IN  IF n > 0 THEN (IF IsInf(r) /\ ~IsInf(x) THEN Exc("OverflowError") ELSE r)
             ELSE IF IsZero(x) THEN Exc("ZeroDivisionError")
             ELSE IF IsZero(r) THEN Exc("OverflowError")
             ELSE Div(One, r)

(***************************************************************************)
(* Utility functions (transforms.py, lines 22-33).                         *)
(***************************************************************************)
\* Mutants of clip_value: without the NaN test; adding instead of taking the
\* maximum.
clip_value_unguarded(value, min_val, max_val) ==
    IF IsExc(value) THEN value
    ELSE PyMax(min_val, PyMin(max_val, value))

clip_value_added(value, min_val, max_val) ==
    IF IsExc(value) \/ IsNaN(value) THEN value
    ELSE Add(min_val, PyMin(max_val, value))

clip_value(value, min_val, max_val) ==
    IF IsExc(value) \/ IsNaN(value) THEN value
    ELSE PyMax(min_val, PyMin(max_val, value))

\* Mutants of scale_value: a degenerate interval answered with new_min
\* instead of the division; the offset taken from old_max.
scale_value_guarded(value, old_min, old_max, new_min, new_max) ==
    IF Eq(old_max, old_min) THEN new_min
    ELSE Add(new_min, Div(Mul(Sub(value, old_min), Sub(new_max, new_min)),
                          Sub(old_max, old_min)))

scale_value_from_max(value, old_min, old_max, new_min, new_max) ==
    Add(new_min, Div(Mul(Sub(value, old_max), Sub(new_max, new_min)),
                     Sub(old_max, old_min)))

scale_value(value, old_min, old_max, new_min, new_max) ==
    Add(new_min, Div(Mul(Sub(value, old_min), Sub(new_max, new_min)),
                     Sub(old_max, old_min)))

\* The clamp of logistic_value, the argument it hands to math.exp, and its
\* result.
\* Mutant of logistic_clipped: no clamp.
logistic_unclipped(value) == value

logistic_clipped(value) == clip_value(value, FInt(-50), FInt(50))
logistic_exp_arg(value) == Neg(logistic_clipped(value))
logistic_value(value) == Div(One, Add(One, Exp(logistic_exp_arg(value))))

(***************************************************************************)
(* Transform instances.  An instance is a record of its class name and its *)
(* attributes; an attribute the class does not have is Unset.              *)
(***************************************************************************)
Unset == [k |-> "unset", m |-> 0, e |-> 0]

Blank == [cls |-> "none", nonzero_value |-> Unset, exponent |-> Unset,
          offset |-> Unset, bad_value |-> Unset, good_value |-> Unset,
          sharpness |-> Unset, low_sharpness |-> Unset, high_sharpness |-> Unset]

\* The __init__ methods.
NewEqualReward(nonzero_value) ==
    [Blank EXCEPT !.cls = "EqualReward", !.nonzero_value = nonzero_value]
NewAbsoluteReward == [Blank EXCEPT !.cls = "AbsoluteReward"]
NewNegatedReward == [Blank EXCEPT !.cls = "NegatedReward"]
NewPowerReward(exponent) ==
    [Blank EXCEPT !.cls = "PowerReward", !.exponent = exponent]
NewLogReward(offset) ==
    [Blank EXCEPT !.cls = "LogReward", !.offset = offset]
NewLinearClippedReward(bad_value, good_value) ==
    [Blank EXCEPT !.cls = "LinearClippedReward",
                  !.bad_value = bad_value, !.good_value = good_value]
NewSoftPlusReward(bad_value, good_value, sharpness) ==
    [Blank EXCEPT !.cls = "SoftPlusReward", !.bad_value = bad_value,
                  !.good_value = good_value, !.sharpness = sharpness]
NewNegExpReward(bad_value, good_value, sharpness) ==
    [Blank EXCEPT !.cls = "NegExpReward", !.bad_value = bad_value,
                  !.good_value = good_value, !.sharpness = sharpness]
NewSigmoidReward(bad_value, good_value, low_sharpness, high_sharpness) ==
    [Blank EXCEPT !.cls = "SigmoidReward", !.bad_value = bad_value,
                  !.good_value = good_value, !.low_sharpness = low_sharpness,
                  !.high_sharpness = high_sharpness]

\* The default arguments of the constructors.
DefaultNonzeroValue == Zero
DefaultOffset == FRatio(1, 10000)
DefaultGoodValue == Zero
DefaultSoftPlusSharpness == Neg(Log(FInt(19)))
DefaultNegExpSharpness == Neg(Log(FRatio(1, 10)))
DefaultLowSharpness == Neg(Log(FInt(19)))
DefaultHighSharpness == Log(FInt(19))

(***************************************************************************)
(* The element expression of each __call__ (the body of its list           *)
(* comprehension): the reward of one error, or the exception it raises.    *)
(***************************************************************************)
EqualReward(self, error) ==
    IF IsNaN(error) THEN error
    ELSE IF Eq(error, Zero) THEN One
    ELSE self.nonzero_value

AbsoluteReward(self, error) == AbsVal(error)

NegatedReward(self, error) == Neg(error)

PowerReward(self, error) == Pow(error, self.exponent)

LogReward(self, error) == Log(Add(error, self.offset))

\* Mutant of LinearClippedReward: the thresholds swapped.
LinearClippedRewardSwapped(self, error) ==
    clip_value(scale_value(error, self.good_value, self.bad_value, Zero, One),
               Zero, One)

LinearClippedReward(self, error) ==
    clip_value(scale_value(error, self.bad_value, self.good_value, Zero, One),
               Zero, One)

\* Mutant of SoftPlusReward: the result not clipped.
SoftPlusRewardUnclipped(self, error) ==
    Mul(FInt(2), logistic_value(
            scale_value(error, self.bad_value, self.good_value,
                        self.sharpness, Zero)))

SoftPlusReward(self, error) ==
    clip_value(Mul(FInt(2), logistic_value(
                   scale_value(error, self.bad_value, self.good_value,
                               self.sharpness, Zero))),
               Zero, One)

NegExpReward(self, error) ==
    clip_value(Exp(Neg(scale_value(error, self.bad_value, self.good_value,
                                   self.sharpness, Zero))),
               Zero, One)

SigmoidReward(self, error) ==
    logistic_value(scale_value(error, self.bad_value, self.good_value,
                               self.low_sharpness, self.high_sharpness))

\* Dispatch of self.__call__ on the class of self.
Reward(self, error) ==
    CASE self.cls = "EqualReward" -> EqualReward(self, error)
      [] self.cls = "AbsoluteReward" -> AbsoluteReward(self, error)
      [] self.cls = "NegatedReward" -> NegatedReward(self, error)
      [] self.cls = "PowerReward" -> PowerReward(self, error)
      [] self.cls = "LogReward" -> LogReward(self, error)
      [] self.cls = "LinearClippedReward" -> LinearClippedReward(self, error)
      [] self.cls = "SoftPlusReward" -> SoftPlusReward(self, error)
      [] self.cls = "NegExpReward" -> NegExpReward(self, error)
      [] self.cls = "SigmoidReward" -> SigmoidReward(self, error)

(***************************************************************************)
(* Bounded inputs.                                                         *)
(***************************************************************************)
\* Longest error sequence a caller passes (besides the documented example).
MaxLen == 2

Half == FRatio(1, 2)
Two == FInt(2)

RECURSIVE SeqsUpTo(_, _)
SeqsUpTo(S, n) ==
    IF n = 0 THEN {<<>>}
    ELSE LET shorter == SeqsUpTo(S, n - 1)
         IN  shorter \cup {Append(q, x) : q \in {r \in shorter : Len(r) = n - 1}, x \in S}

\* Error values: NaN ("inapplicable"), the infinities, the thresholds, their
\* midpoint and a quarter point, and values near and far beyond them on
\* either side.
ErrorValues == {NaN, NegInf, PosInf, FInt(-1024), FInt(-1), Zero,
                FRatio(1, 4), Half, One, Two, FInt(1024)}
Inputs == SeqsUpTo(ErrorValues, MaxLen) \cup {<<One, Zero, Half, Two>>}

\* Inputs of the callers that share one instance.
SharedValues == {NaN, Zero, Two}
SharedInputs == SeqsUpTo(SharedValues, MaxLen)

\* Constructor arguments: finite floats, the defaults among them.
NonzeroValues == {DefaultNonzeroValue, FInt(-1)}
Exponents == {Zero, Two, FInt(-1)}
Offsets == {DefaultOffset, Zero}
BadValues == {Zero, One}
GoodValues == {DefaultGoodValue, One}
SoftPlusSharpnesses == {DefaultSoftPlusSharpness, Zero}
NegExpSharpnesses == {DefaultNegExpSharpness, Zero}

Instances ==
    {NewEqualReward(v) : v \in NonzeroValues}
    \cup {NewAbsoluteReward, NewNegatedReward}
    \cup {NewPowerReward(x) : x \in Exponents}
    \cup {NewLogReward(o) : o \in Offsets}
    \cup {NewLinearClippedReward(b, g) : b \in BadValues, g \in GoodValues}
    \cup {NewSoftPlusReward(b, g, s) :
              b \in BadValues, g \in GoodValues, s \in SoftPlusSharpnesses}
    \cup {NewNegExpReward(b, g, s) :
              b \in BadValues, g \in GoodValues, s \in NegExpSharpnesses}
    \cup {NewSigmoidReward(b, g, DefaultLowSharpness, DefaultHighSharpness) :
              b \in BadValues, g \in GoodValues}

\* Arguments of the utility functions.
ClipValues == {NaN, NegInf, PosInf, FInt(-1), Zero, Half, One, Two}
ScaleValues == {FInt(-1), Zero, FRatio(1, 10), One, Two}
LogisticValues == {NaN, NegInf, PosInf, Zero, One, FInt(-1), FInt(48), FInt(-48),
                   FInt(50), FInt(-50), FInt(52), FInt(-52), FInt(64), FInt(-64),
                   FInt(1024), FInt(-1024)}

(***************************************************************************)
(* State.                                                                  *)
(*   inst   the transform instance the callers share ("none": not yet      *)
(*          constructed)                                                   *)
(*   fresh  the instance as its constructor returned it (history)          *)
(*   th     per caller thread, the call in progress: the argument, the     *)
(*          position of the list comprehension, the list built so far,     *)
(*          and what the caller got (a list, or an exception)              *)
(*   prim   the last direct call of a utility function                     *)
(***************************************************************************)
VARIABLES inst, fresh, th, prim

vars == <<inst, fresh, th, prim>>

Threads == {1, 2}

Idle == [pc |-> "idle", errors |-> <<>>, i |-> 0, rewards |-> <<>>,
         ret |-> <<>>, exc |-> "none"]

NoPrim == [op |-> "none", args |-> <<>>, out |-> Unset, again |-> Unset,
           exp_arg |-> Unset]

Init ==
    /\ inst = Blank
    /\ fresh = Blank
    /\ th = [t \in Threads |-> Idle]
    /\ prim = NoPrim

\* obj = Class(...): __init__ stores its arguments.
Construct(obj) ==
    /\ inst.cls = "none"
    /\ inst' = obj
    /\ fresh' = obj
    /\ UNCHANGED <<th, prim>>

\* Thread t calls inst(errors).
Call(t, errors) ==
    /\ inst.cls # "none"
    /\ th[t].pc = "idle"
    /\ th' = [th EXCEPT ![t] = [Idle EXCEPT !.pc = "running", !.errors = errors,
                                            !.i = 1]]
    /\ UNCHANGED <<inst, fresh, prim>>

\* Mutants: the reward added to the one before it (a running sum); the
\* last error kept on the instance.
ElementRewardAccumulated(self, errors, i, rewards) ==
    IF rewards = <<>> THEN Reward(self, errors[i])
    ELSE Add(rewards[Len(rewards)], Reward(self, errors[i]))

SelfAfterElementCached(self, error) == [self EXCEPT !.offset = error]

\* The element the list comprehension computes at position i, and the
\* instance after computing it (no __call__ assigns to self).
ElementReward(self, errors, i, rewards) == Reward(self, errors[i])
SelfAfterElement(self, error) == self

\* One iteration of the list comprehension: the reward is appended, or the
\* exception propagates to the caller and the list built so far is dropped.
Step(t) ==
    /\ th[t].pc = "running"
    /\ th[t].i <= Len(th[t].errors)
    /\ LET r == ElementReward(inst, th[t].errors, th[t].i, th[t].rewards)
       IN  th' = [th EXCEPT ![t] =
                     IF IsExc(r)
                     THEN [@ EXCEPT !.pc = "raised", !.rewards = <<>>, !.exc = r.k]
                     ELSE [@ EXCEPT !.i = @ + 1, !.rewards = Append(@, r)]]
    /\ inst' = SelfAfterElement(inst, th[t].errors[th[t].i])
    /\ UNCHANGED <<fresh, prim>>

\* The comprehension is exhausted: the list is returned.
Return(t) ==
    /\ th[t].pc = "running"
    /\ th[t].i > Len(th[t].errors)
    /\ th' = [th EXCEPT ![t] = [@ EXCEPT !.pc = "returned", !.ret = th[t].rewards]]
    /\ UNCHANGED <<inst, fresh, prim>>

\* The caller is done with the outcome and may call again.
Done(t) ==
    /\ th[t].pc \in {"returned", "raised"}
    /\ th' = [th EXCEPT ![t] = Idle]
    /\ UNCHANGED <<inst, fresh, prim>>

\* Direct calls of the utility functions.
ApplyClip(value, min_val, max_val) ==
    /\ prim.op = "none"
    /\ prim' = [NoPrim EXCEPT !.op = "clip_value",
                   !.args = <<value, min_val, max_val>>,
                   !.out = clip_value(value, min_val, max_val),
                   !.again = clip_value(clip_value(value, min_val, max_val),
                                        min_val, max_val)]
    /\ UNCHANGED <<inst, fresh, th>>

ApplyScale(value, old_min, old_max, new_min, new_max) ==
    /\ prim.op = "none"
    /\ prim' = [NoPrim EXCEPT !.op = "scale_value",
                   !.args = <<value, old_min, old_max, new_min, new_max>>,
                   !.out = scale_value(value, old_min, old_max, new_min, new_max)]
    /\ UNCHANGED <<inst, fresh, th>>

ApplyLogistic(value) ==
    /\ prim.op = "none"
    /\ prim' = [NoPrim EXCEPT !.op = "logistic_value", !.args = <<value>>,
                   !.out = logistic_value(value),
                   !.exp_arg = logistic_exp_arg(value)]
    /\ UNCHANGED <<inst, fresh, th>>

\* The caller of a utility function is done with its result.
PrimDone ==
    /\ prim.op # "none"
    /\ prim' = NoPrim
    /\ UNCHANGED <<inst, fresh, th>>

\* One caller.
Next ==
    \/ \E obj \in Instances : Construct(obj)
    \/ \E errors \in Inputs : Call(1, errors)
    \/ Step(1)
    \/ Return(1)
    \/ Done(1)

Spec == Init /\ [][Next]_vars

\* Several callers sharing the instance, their calls interleaved between
\* the iterations of the comprehensions.
NextShared ==
    \/ \E obj \in Instances : Construct(obj)
    \/ \E t \in Threads : \E errors \in SharedInputs : Call(t, errors)
    \/ \E t \in Threads : Step(t)
    \/ \E t \in Threads : Return(t)
    \/ \E t \in Threads : Done(t)

SpecShared == Init /\ [][NextShared]_vars

\* The utility functions called directly.
NextPrim ==
    \/ \E v \in ClipValues, lo \in ClipValues, hi \in ClipValues : ApplyClip(v, lo, hi)
    \/ \E v \in ScaleValues, a \in ScaleValues, b \in ScaleValues,
          c \in ScaleValues, d \in ScaleValues : ApplyScale(v, a, b, c, d)
    \/ \E v \in LogisticValues : ApplyLogistic(v)
    \/ PrimDone

SpecPrim == Init /\ [][NextPrim]_vars

(***************************************************************************)
(* Helpers of the properties.                                              *)
(***************************************************************************)
Scaled == {"LinearClippedReward", "SoftPlusReward", "NegExpReward", "SigmoidReward"}
Clipped == {"LinearClippedReward", "SoftPlusReward", "NegExpReward"}

\* The outcome of self(errors) computed in one piece: the list of rewards,
\* or the first exception.
RECURSIVE Outcome(_, _)
Outcome(self, errors) ==
    IF errors = <<>> THEN [exc |-> "none", list |-> <<>>]
    ELSE LET r == Reward(self, Head(errors))
             rest == Outcome(self, Tail(errors))
         IN  IF IsExc(r) THEN [exc |-> r.k, list |-> <<>>]
             ELSE IF rest.exc # "none" THEN rest
             ELSE [exc |-> "none", list |-> <<r>> \o rest.list]

Perms(n) == {p \in [1..n -> 1..n] : \A j \in 1..n : \E k \in 1..n : p[k] = j}
Permuted(q, p) == [j \in 1..Len(q) |-> q[p[j]]]

\* The exact (unrounded) value of a finite float as a multiple of 2^-12.
Exact12(x) == x.m * Pow2(x.e + 12)
HasExact12(x) == IsFin(x) /\ x.e >= -12 /\ Top(x) <= 12

\* Whether x + y, x - y, x * y are computed without rounding error.
Signed(n, e) == IF n < 0 THEN NegVal(Canon(-n, e)) ELSE Canon(n, e)
SumIsExact(x, y) ==
    /\ HasExact12(x) /\ HasExact12(y)
    /\ Add(x, y) = Signed(Exact12(x) + Exact12(y), -12)
DiffIsExact(x, y) == SumIsExact(x, NegVal(y))
ProdIsExact(x, y) ==
    /\ IsFin(x) /\ IsFin(y)
    /\ Mul(x, y) = Signed(x.m * y.m, x.e + y.e)

\* The integer value of an integer-valued finite float.
IsInt(x) == IsFin(x) /\ x.e >= 0 /\ Top(x) <= 12
IntOf(x) == x.m * Pow2(x.e)

(***************************************************************************)
(* C1.  Every call that returns yields exactly len(errors) rewards, and    *)
(* element i of the result depends only on element i of the input and on   *)
(* the constructor parameters: whenever two calls on the instance have     *)
(* returned and the input of one is a permutation of the input of the      *)
(* other, its result is the same permutation of the other's result.        *)
(***************************************************************************)
C1_Elementwise ==
    \A t \in Threads : th[t].pc = "returned" =>
        /\ Len(th[t].ret) = Len(th[t].errors)
        /\ \A u \in Threads :
             (th[u].pc = "returned" /\ Len(th[u].errors) = Len(th[t].errors)) =>
                \A p \in Perms(Len(th[t].errors)) :
                    th[u].errors = Permuted(th[t].errors, p)
                        => th[u].ret = Permuted(th[t].ret, p)

\* Two calls have returned, one on the swapped input of the other, with
\* different rewards at the two positions.
C1_Witness ==
    /\ th[1].pc = "returned" /\ th[2].pc = "returned"
    /\ Len(th[1].errors) = 2
    /\ th[1].errors[1] # th[1].errors[2]
    /\ th[2].errors = <<th[1].errors[2], th[1].errors[1]>>
    /\ th[1].ret[1] # th[1].ret[2]
    /\ th[2].ret = <<th[1].ret[2], th[1].ret[1]>>

(***************************************************************************)
(* C2.  Every variant, for every valid choice of its parameters (distinct  *)
(* thresholds), maps a NaN error to a NaN reward and does not raise on it. *)
(* Violated by PowerReward with exponent 0: nan ** 0 is 1.0.               *)
(***************************************************************************)
ValidInstance == inst.cls \in Scaled => ~Eq(inst.bad_value, inst.good_value)

C2_NaNPassesThrough ==
    \A t \in Threads : ValidInstance =>
        /\ \A j \in 1..Len(th[t].rewards) :
               IsNaN(th[t].errors[j]) => IsNaN(th[t].rewards[j])
        /\ th[t].pc = "raised" => ~IsNaN(th[t].errors[th[t].i])

\* The same for every variant but PowerReward with a zero exponent.
C2_NaNPassesThroughElsewhere ==
    ~(inst.cls = "PowerReward" /\ IsZero(inst.exponent)) => C2_NaNPassesThrough

(***************************************************************************)
(* C3.  A call either returns a list as long as its input or raises and    *)
(* hands the caller no list.  With bad_value == good_value the instance    *)
(* is constructed, a call on a non-empty input raises ZeroDivisionError at *)
(* its first element whatever that element is, and a call on the empty     *)
(* input returns the empty list.                                           *)
(***************************************************************************)
Degenerate == inst.cls \in Scaled /\ Eq(inst.bad_value, inst.good_value)

C4_ClipAsClaimed ==
    prim.op = "clip_value" =>
        LET value == prim.args[1]
            min_val == prim.args[2]
            max_val == prim.args[3]
        IN  /\ IsNaN(value) => prim.out = value
            /\ (~IsNaN(value) /\ ~IsNaN(min_val) /\ ~IsNaN(max_val)) =>
                   /\ (Le(min_val, value) /\ Le(value, max_val)) => prim.out = value
                   /\ Lt(value, min_val) => prim.out = min_val
                   /\ Gt(value, max_val) => prim.out = max_val

(***************************************************************************)
(* C4 amended.  clip returns a NaN value unchanged for all bounds; for a   *)
(* non-NaN value and non-NaN bounds with min <= max: value in [min, max]   *)
(* gives value, value < min gives min, value > max gives max, so the       *)
(* result lies in [min, max]; with min > max the result is min.            *)
(***************************************************************************)
C4_Clip ==
    prim.op = "clip_value" =>
        LET value == prim.args[1]
            min_val == prim.args[2]
            max_val == prim.args[3]
        IN  /\ IsNaN(value) => prim.out = value
            /\ (~IsNaN(value) /\ Le(min_val, max_val)) =>
                   /\ (Le(min_val, value) /\ Le(value, max_val)) => prim.out = value
                   /\ Lt(value, min_val) => prim.out = min_val
                   /\ Gt(value, max_val) => prim.out = max_val
                   /\ Le(min_val, prim.out) /\ Le(prim.out, max_val)
            /\ (~IsNaN(value) /\ Gt(min_val, max_val)) => prim.out = min_val

\* A value above the upper bound of a proper interval was clipped to it.
C4_Witness ==
    /\ prim.op = "clip_value"
    /\ Lt(prim.args[2], prim.args[3])
    /\ Gt(prim.args[1], prim.args[3])
    /\ prim.out = prim.args[3]

(***************************************************************************)
(* C5.  clip is idempotent: for every value (NaN included) and every pair  *)
(* of bounds (min > max included), clipping the result again changes       *)
(* nothing.                                                                *)
(***************************************************************************)
C5_ClipIdempotent == prim.op = "clip_value" => prim.again = prim.out

\* A value was changed by clipping it to bounds with min > max.
C5_Witness ==
    /\ prim.op = "clip_value"
    /\ Gt(prim.args[2], prim.args[3])
    /\ prim.out # prim.args[1]
    /\ prim.again = prim.out

C7_LogisticClamped ==
    prim.op = "logistic_value" =>
        LET x == prim.args[1]
        IN  /\ Ge(x, FInt(50)) => prim.out = logistic_value(FInt(50))
            /\ Le(x, FInt(-50)) => prim.out = logistic_value(FInt(-50))
            /\ (Ge(x, FInt(-50)) /\ Le(x, FInt(50)))
                   => prim.out = Div(One, Add(One, Exp(Neg(x))))
            /\ ~Lt(prim.exp_arg, FInt(-50)) /\ ~Gt(prim.exp_arg, FInt(50))
            /\ ~IsExc(prim.out)

\* logistic was called far below -50 and math.exp was handed 50.
C7_Witness ==
    /\ prim.op = "logistic_value"
    /\ Lt(prim.args[1], FInt(-64))
    /\ prim.exp_arg = FInt(50)
    /\ prim.out = logistic_value(FInt(-50))
    /\ Gt(prim.out, Zero)

C9_Immutable ==
    /\ inst = fresh
    /\ \A t \in Threads :
         /\ th[t].pc = "returned" =>
                /\ Outcome(fresh, th[t].errors).exc = "none"
                /\ th[t].ret = Outcome(fresh, th[t].errors).list
         /\ th[t].pc = "raised" => th[t].exc = Outcome(fresh, th[t].errors).exc

\* One thread got its two rewards while the other is in the middle of its
\* own call on the same instance.
C9_Witness ==
    /\ th[1].pc = "returned" /\ Len(th[1].ret) = 2
    /\ th[2].pc = "running" /\ th[2].i = 2 /\ Len(th[2].errors) = 2
    /\ inst.cls = "SigmoidReward"

====
